---- MODULE Spec2Model ----
(***************************************************************************)
(* Greenhouse monitoring application: the reading submission handler       *)
(* (input_form), the issue resolution handler (resolve_issue), the         *)
(* dashboard, the employee edit handler (edit_employee), the range         *)
(* validators and the mail transport, over the persisted store of          *)
(* Greenhouse, Employee, Issue and EnvironmentalData rows.                  *)
(*                                                                         *)
(* Numeric metric values are fixed-point hundredths: 22.5 is 2250, 19.99   *)
(* is 1999.  A request is a process with a position (pc): the handlers are *)
(* cut at the points where they talk to the database (the commit) and to   *)
(* the mail server, which is where requests served by different threads    *)
(* interleave.                                                             *)
(***************************************************************************)
EXTENDS Integers, Sequences, FiniteSets, TLC

VARIABLES
    config,                 \* app.config: the mail settings read from the environment
    greenhouses,            \* Greenhouse table: the ids of its rows
    employees,              \* Employee table: id -> row
    issues,                 \* Issue table: sequence of rows, the id is the index
    env_data,               \* EnvironmentalData table: sequence of rows, the id is the index
    now,                    \* datetime.datetime.utcnow()
    pc,                     \* position of each request worker
    req,                    \* the request a worker is serving
    session,                \* db.session of each worker: pending adds and updates
    notifications_to_send,  \* input_form's local list, per worker
    resp                    \* the answer sent last: http status, flashed messages, mail outcome, log, context

vars == <<config, greenhouses, employees, issues, env_data, now, pc, req, session,
          notifications_to_send, resp>>

----------------------------------------------------------------------------
(* Bounds of the model *)

NumProcs == 2
NumGreenhouses == 2
MaxIssues == 2
MaxData == 3
MaxTime == 2
NumDashGreenhouses == 5

Procs == 1..NumProcs
GreenhouseIds == 1..NumGreenhouses

----------------------------------------------------------------------------
(* Columns and configuration *)

NULL == 0

NORMAL_TEMP == 2250
NORMAL_HUMIDITY == 5000
NORMAL_CO2 == 70000
NORMAL_LIGHT == 500000
NORMAL_PH == 650
NORMAL_MOISTURE == 4500

Metrics == <<"temperature", "humidity", "co2", "light_intensity", "soil_ph", "soil_moisture">>

\* Config as the environment can set it: MAIL_ENABLED, MAIL_USERNAME (from
\* which MAIL_DEFAULT_SENDER is derived), MAIL_PASSWORD, MAIL_SERVER.
MailDefaultSender(username_set) ==
    IF username_set THEN "sender" ELSE "None"

\* TRUE stands for a value that is set and non-empty.
AllConfigs ==
    [MAIL_ENABLED : BOOLEAN, MAIL_USERNAME : BOOLEAN,
     MAIL_PASSWORD : BOOLEAN, MAIL_SERVER : BOOLEAN]

\* The configurations of the main specification: mail fully configured, and
\* mail enabled (the default) with MAIL_USERNAME missing from the environment.
Configs ==
    { [MAIL_ENABLED |-> TRUE,  MAIL_USERNAME |-> TRUE,  MAIL_PASSWORD |-> TRUE, MAIL_SERVER |-> TRUE],
      [MAIL_ENABLED |-> TRUE,  MAIL_USERNAME |-> FALSE, MAIL_PASSWORD |-> TRUE, MAIL_SERVER |-> TRUE] }

----------------------------------------------------------------------------
(* utils.py: the range validators *)

\* Variant: the lower bound is exclusive.
check_temperature_exclusive(temperature) == 2000 < temperature /\ temperature <= 2500

check_temperature(temperature) == 2000 <= temperature /\ temperature <= 2500

check_humidity(humidity) == 4000 <= humidity /\ humidity <= 6000

check_co2(co2) == 40000 <= co2 /\ co2 <= 100000

check_light_intensity(light_intensity) ==
    100000 <= light_intensity /\ light_intensity <= 1000000

check_soil_ph(soil_ph) == 600 <= soil_ph /\ soil_ph <= 700

check_soil_moisture(soil_moisture) == 3000 <= soil_moisture /\ soil_moisture <= 6000

\* SMTP outcomes: the server accepts the message, rejects the login, or any
\* other step (connect, starttls, sendmail) raises.
SmtpOutcomes == {"ok", "auth_error", "error"}

\* send_email_notification: "True", "False", or "raise" when an exception
\* leaves the function.
send_email_notification(cfg, recipients, smtp) ==
    IF ~cfg.MAIL_ENABLED THEN "False"
    ELSE IF MailDefaultSender(cfg.MAIL_USERNAME) = "None" THEN "raise"
    ELSE IF ~cfg.MAIL_PASSWORD \/ ~cfg.MAIL_SERVER THEN "False"
    ELSE IF recipients = <<>> THEN "False"
    ELSE IF smtp = "ok" THEN "True"
    ELSE "False"

----------------------------------------------------------------------------
(* models: the rows *)

\* The timestamp column is left out: the handlers modelled here write it and
\* never read it back.
EnvironmentalData(greenhouse_id, temperature, humidity, co2, light_intensity, soil_ph, soil_moisture, source) ==
    [greenhouse_id |-> greenhouse_id, temperature |-> temperature,
     humidity |-> humidity, co2 |-> co2, light_intensity |-> light_intensity,
     soil_ph |-> soil_ph, soil_moisture |-> soil_moisture,
     source |-> source]

\* Variant: the issue is born closed.
IssueBornResolved(greenhouse_id, description) ==
    [greenhouse_id |-> greenhouse_id, description |-> description,
     status |-> "Resolved", created_at |-> NULL, resolved_at |-> NULL]

\* Issue(greenhouse_id=..., description=..., status='Ongoing'): created_at takes
\* its column default when the row is inserted, resolved_at is NULL.
Issue(greenhouse_id, description) ==
    [greenhouse_id |-> greenhouse_id, description |-> description,
     status |-> "Ongoing", created_at |-> NULL, resolved_at |-> NULL]

Employee(is_admin, greenhouse_id, available, email) ==
    [is_admin |-> is_admin, greenhouse_id |-> greenhouse_id,
     available |-> available, email |-> email]

\* The staff the store starts with: an admin without a greenhouse, an
\* employee on greenhouse 1 and an employee without a greenhouse.
\* Greenhouse 2 has no staff.
InitialEmployees ==
    <<Employee(TRUE, NULL, TRUE, "admin@gt"),
      Employee(FALSE, 1, TRUE, "e2@gt"),
      Employee(FALSE, NULL, TRUE, "e3@gt")>>

----------------------------------------------------------------------------
(* request.form: each field is a string that float() accepts or rejects *)

Number(v) == [kind |-> "number", val |-> v]
Text == [kind |-> "text", val |-> 0]

IsFloat(s) == s.kind = "number"

\* Variant: the fraction is dropped, as int() would.
float_whole(s) == (s.val \div 100) * 100

float(s) == s.val

Form(t, h, c, l, ph, m) ==
    [temperature |-> t, humidity |-> h, co2 |-> c, light_intensity |-> l,
     soil_ph |-> ph, soil_moisture |-> m]

\* The submissions of the main specification: all six in range; temperature
\* 19 and humidity 70; a non-numeric field.
Forms ==
    { Form(Number(2100), Number(4500), Number(50000), Number(200000), Number(620), Number(3500)),
      Form(Number(1900), Number(7000), Number(50000), Number(200000), Number(620), Number(3500)),
      Form(Number(2100), Number(4500), Text, Number(200000), Number(620), Number(3500)) }

\* Submissions with one non-numeric field, each of the six in turn.
TextForms ==
    { Form(Text, Number(4500), Number(50000), Number(200000), Number(620), Number(3500)),
      Form(Number(2100), Text, Number(50000), Number(200000), Number(620), Number(3500)),
      Form(Number(2100), Number(4500), Text, Number(200000), Number(620), Number(3500)),
      Form(Number(2100), Number(4500), Number(50000), Text, Number(620), Number(3500)),
      Form(Number(2100), Number(4500), Number(50000), Number(200000), Text, Number(3500)),
      Form(Number(1900), Number(7000), Number(50000), Number(200000), Number(620), Text) }

\* The submissions of the validator specification: every metric just below,
\* at and just above its bounds.
BoundaryForms ==
    { Form(Number(t), Number(h), Number(c), Number(l), Number(ph), Number(m)) :
        t \in {1999, 2000, 2500, 2501}, h \in {3999, 4000, 6000, 6001},
        c \in {39999, 40000, 100000, 100001}, l \in {99999, 100000, 1000000, 1000001},
        ph \in {599, 600, 700, 701}, m \in {2999, 3000, 6000, 6001} }

\* Variant: the last conversion is not made.
AllFloatButMoisture(form) ==
    /\ IsFloat(form.temperature) /\ IsFloat(form.humidity) /\ IsFloat(form.co2)
    /\ IsFloat(form.light_intensity) /\ IsFloat(form.soil_ph)

AllFloat(form) ==
    /\ IsFloat(form.temperature) /\ IsFloat(form.humidity) /\ IsFloat(form.co2)
    /\ IsFloat(form.light_intensity) /\ IsFloat(form.soil_ph)
    /\ IsFloat(form.soil_moisture)

----------------------------------------------------------------------------
(* input_form: the issue evaluation *)

\* One entry of issue_description_parts: the message names the metric and
\* embeds the value.
Violation(metric, value) == [metric |-> metric, value |-> value]

\* Variant: the soil moisture check is missing.
issue_description_parts_no_moisture(temperature, humidity, co2, light_intensity, soil_ph, soil_moisture) ==
       (IF ~check_temperature(temperature)
          THEN <<Violation("temperature", temperature)>> ELSE <<>>)
    \o (IF ~check_humidity(humidity)
          THEN <<Violation("humidity", humidity)>> ELSE <<>>)
    \o (IF ~check_co2(co2)
          THEN <<Violation("co2", co2)>> ELSE <<>>)
    \o (IF ~check_light_intensity(light_intensity)
          THEN <<Violation("light_intensity", light_intensity)>> ELSE <<>>)
    \o (IF ~check_soil_ph(soil_ph)
          THEN <<Violation("soil_ph", soil_ph)>> ELSE <<>>)

\* Variant: humidity is checked before temperature.
issue_description_parts_humidity_first(temperature, humidity, co2, light_intensity, soil_ph, soil_moisture) ==
       (IF ~check_humidity(humidity)
          THEN <<Violation("humidity", humidity)>> ELSE <<>>)
    \o (IF ~check_temperature(temperature)
          THEN <<Violation("temperature", temperature)>> ELSE <<>>)
    \o (IF ~check_co2(co2)
          THEN <<Violation("co2", co2)>> ELSE <<>>)
    \o (IF ~check_light_intensity(light_intensity)
          THEN <<Violation("light_intensity", light_intensity)>> ELSE <<>>)
    \o (IF ~check_soil_ph(soil_ph)
          THEN <<Violation("soil_ph", soil_ph)>> ELSE <<>>)
    \o (IF ~check_soil_moisture(soil_moisture)
          THEN <<Violation("soil_moisture", soil_moisture)>> ELSE <<>>)

issue_description_parts(temperature, humidity, co2, light_intensity, soil_ph, soil_moisture) ==
       (IF ~check_temperature(temperature)
          THEN <<Violation("temperature", temperature)>> ELSE <<>>)
    \o (IF ~check_humidity(humidity)
          THEN <<Violation("humidity", humidity)>> ELSE <<>>)
    \o (IF ~check_co2(co2)
          THEN <<Violation("co2", co2)>> ELSE <<>>)
    \o (IF ~check_light_intensity(light_intensity)
          THEN <<Violation("light_intensity", light_intensity)>> ELSE <<>>)
    \o (IF ~check_soil_ph(soil_ph)
          THEN <<Violation("soil_ph", soil_ph)>> ELSE <<>>)
    \o (IF ~check_soil_moisture(soil_moisture)
          THEN <<Violation("soil_moisture", soil_moisture)>> ELSE <<>>)

\* "Alert for Greenhouse '<name>' (<location>):\n- " + "\n- ".join(parts)
full_issue_description(greenhouse_id, parts) ==
    [greenhouse |-> greenhouse_id, parts |-> parts]

\* Variant: emp.available is not tested.
RECURSIVE recipient_emails_unavailable_too(_, _, _)
recipient_emails_unavailable_too(emps, greenhouse_id, k) ==
    IF k > Len(emps) THEN <<>>
    ELSE (IF /\ emps[k].greenhouse_id = greenhouse_id
             /\ emps[k].email # ""
            THEN <<emps[k].email>> ELSE <<>>)
         \o recipient_emails_unavailable_too(emps, greenhouse_id, k + 1)

\* Variant: every available employee that has a greenhouse is taken, whichever
\* greenhouse it is.
RECURSIVE recipient_emails_any_greenhouse(_, _, _)
recipient_emails_any_greenhouse(emps, greenhouse_id, k) ==
    IF k > Len(emps) THEN <<>>
    ELSE (IF /\ emps[k].greenhouse_id # NULL
             /\ emps[k].email # ""
             /\ emps[k].available
            THEN <<emps[k].email>> ELSE <<>>)
         \o recipient_emails_any_greenhouse(emps, greenhouse_id, k + 1)

\* [emp.email for emp in greenhouse.employees if emp.email and emp.available]
RECURSIVE recipient_emails(_, _, _)
recipient_emails(emps, greenhouse_id, k) ==
    IF k > Len(emps) THEN <<>>
    ELSE (IF /\ emps[k].greenhouse_id = greenhouse_id
             /\ emps[k].email # ""
             /\ emps[k].available
            THEN <<emps[k].email>> ELSE <<>>)
         \o recipient_emails(emps, greenhouse_id, k + 1)

----------------------------------------------------------------------------
(* resolve_issue: the permission check and the writes *)

\* Variant: any employee that has a greenhouse may resolve.
can_resolve_any_assigned(employee, issue) ==
    IF employee.is_admin THEN TRUE
    ELSE /\ issue.greenhouse_id # NULL
         /\ employee.greenhouse_id # NULL

can_resolve(employee, issue) ==
    IF employee.is_admin THEN TRUE
    ELSE /\ issue.greenhouse_id # NULL
         /\ employee.greenhouse_id # NULL
         /\ issue.greenhouse_id = employee.greenhouse_id

\* if issue.status == 'Ongoing'
\* Variant: the status is not tested.
is_ongoing_unchecked(issue) == TRUE

is_ongoing(issue) == issue.status = "Ongoing"

\* Variant: the status is set and resolved_at is not.
ResolveUpdateNoStamp(issue_id, t) ==
    [id |-> issue_id, status |-> "Resolved", resolved_at |-> NULL]

\* issue.status = 'Resolved'; issue.resolved_at = utcnow(): the pending UPDATE
ResolveUpdate(issue_id, t) ==
    [id |-> issue_id, status |-> "Resolved", resolved_at |-> t]

\* Variant: temperature and humidity are taken from each other's setting.
normal_data_swapped(greenhouse_id_affected) ==
    EnvironmentalData(greenhouse_id_affected, NORMAL_HUMIDITY, NORMAL_TEMP,
                      NORMAL_CO2, NORMAL_LIGHT, NORMAL_PH, NORMAL_MOISTURE,
                      "resolution")

normal_data(greenhouse_id_affected) ==
    EnvironmentalData(greenhouse_id_affected, NORMAL_TEMP, NORMAL_HUMIDITY,
                      NORMAL_CO2, NORMAL_LIGHT, NORMAL_PH, NORMAL_MOISTURE,
                      "resolution")

----------------------------------------------------------------------------
(* db.session: pending INSERTs and UPDATEs, applied together by commit *)

EmptySession == [data |-> <<>>, issues |-> <<>>, dirty |-> <<>>]

ApplyDirty(rows, dirty) ==
    [i \in 1..Len(rows) |->
        IF \E k \in 1..Len(dirty) : dirty[k].id = i
          THEN LET d == dirty[CHOOSE k \in 1..Len(dirty) : dirty[k].id = i]
               IN  [rows[i] EXCEPT !.status = d.status, !.resolved_at = d.resolved_at]
          ELSE rows[i]]

\* INSERT of the added issues: created_at default=datetime.utcnow
InsertIssues(added, t) ==
    [k \in 1..Len(added) |-> [added[k] EXCEPT !.created_at = t]]

\* Variant: the added issues are not part of the commit.
CommittedIssuesWithoutInserts(rows, s, t) == ApplyDirty(rows, s.dirty)

\* Variant: an added issue is dropped when its greenhouse has an open one.
CommittedIssuesOnePerGreenhouse(rows, s, t) ==
    ApplyDirty(rows, s.dirty) \o
        SelectSeq(InsertIssues(s.issues, t),
                  LAMBDA added : ~\E i \in 1..Len(rows) :
                                     /\ rows[i].greenhouse_id = added.greenhouse_id
                                     /\ rows[i].status = "Ongoing")

CommittedIssues(rows, s, t) == ApplyDirty(rows, s.dirty) \o InsertIssues(s.issues, t)

\* Variant: the reading takes the place of the greenhouse's last row.
CommittedDataLatestOnly(rows, s) ==
    SelectSeq(rows, LAMBDA row : \A k \in 1..Len(s.data) :
                                     s.data[k].greenhouse_id # row.greenhouse_id)
        \o s.data

CommittedData(rows, s) == rows \o s.data

\* The store has room for what the session holds (the bound of the model).
HasRoom(s) ==
    /\ Len(issues) + Len(s.issues) <= MaxIssues
    /\ Len(env_data) + Len(s.data) <= MaxData

----------------------------------------------------------------------------
(* Requests and responses *)

NoRequest ==
    [kind |-> "none", greenhouse_id |-> NULL, issue_id |-> NULL, actor |-> NULL,
     read_status |-> "", data_id |-> NULL, new_issue_id |-> NULL, log |-> <<>>]

InputRequest(greenhouse_id) ==
    [NoRequest EXCEPT !.kind = "input", !.greenhouse_id = greenhouse_id]

ResolveRequest(issue_id, actor) ==
    [NoRequest EXCEPT !.kind = "resolve", !.issue_id = issue_id, !.actor = actor]

\* An answer: the http status, the flashed messages in order, what
\* send_email_notification returned to the handler, the warnings the handler
\* wrote to app.logger while it served the request, and the context a
\* template was rendered with.
NoContext == [page |-> "none"]

Response(http, flash, email) ==
    [http |-> http, flash |-> flash, email |-> email, log |-> <<>>, context |-> NoContext]

\* What the request has written to app.logger.warning.
Logged(response, log) == [response EXCEPT !.log = log]

Init ==
    /\ config \in Configs
    /\ greenhouses = GreenhouseIds
    /\ employees = InitialEmployees
    /\ issues = <<>>
    /\ env_data = <<>>
    /\ now = 1
    /\ pc = [p \in Procs |-> "idle"]
    /\ req = [p \in Procs |-> NoRequest]
    /\ session = [p \in Procs |-> EmptySession]
    /\ notifications_to_send = [p \in Procs |-> <<>>]
    /\ resp = Response("", <<>>, "none")

\* The clock advances between any two steps.
Tick ==
    /\ now < MaxTime
    /\ now' = now + 1
    /\ UNCHANGED <<config, greenhouses, employees, issues, env_data, pc, req, session,
                   notifications_to_send, resp>>

----------------------------------------------------------------------------
(* input_form, POST *)

\* From the request to the point where db.session.commit() is called: the
\* greenhouse lookup, the six float() conversions, the new reading, the
\* evaluation, the new issue and the notification.
InputPost(p, greenhouse_id, form) ==
    /\ pc[p] = "idle"
    /\ UNCHANGED <<config, greenhouses, employees, issues, env_data, now>>
    /\ IF greenhouse_id \notin greenhouses
         THEN \* get_or_404
              /\ resp' = Response("404", <<>>, "none")
              /\ UNCHANGED <<pc, req, session, notifications_to_send>>
       ELSE IF ~AllFloat(form)
         THEN \* except ValueError: rollback, flash, render the form again
              /\ session' = [session EXCEPT ![p] = EmptySession]
              /\ resp' = Response("200",
                                  <<"invalid_input">>, "none")
              /\ UNCHANGED <<pc, req, notifications_to_send>>
       ELSE LET temperature == float(form.temperature)
                humidity == float(form.humidity)
                co2 == float(form.co2)
                light_intensity == float(form.light_intensity)
                soil_ph == float(form.soil_ph)
                soil_moisture == float(form.soil_moisture)
                new_data == EnvironmentalData(greenhouse_id, temperature, humidity,
                                co2, light_intensity, soil_ph, soil_moisture,
                                "manual")
                parts == issue_description_parts(temperature, humidity, co2,
                                light_intensity, soil_ph, soil_moisture)
                description == full_issue_description(greenhouse_id, parts)
                new_issue == Issue(greenhouse_id, description)
                recipients == recipient_emails(employees, greenhouse_id, 1)
                \* app.logger.warning: an issue and nobody to notify
                warnings == IF parts # <<>> /\ recipients = <<>>
                              THEN <<"no_recipients">> ELSE <<>>
            IN  /\ req' = [req EXCEPT ![p] =
                      [InputRequest(greenhouse_id) EXCEPT !.log = warnings]]
                /\ session' = [session EXCEPT ![p] =
                      [data |-> <<new_data>>,
                       issues |-> IF parts # <<>> THEN <<new_issue>> ELSE <<>>,
                       dirty |-> <<>>]]
                /\ notifications_to_send' = [notifications_to_send EXCEPT ![p] =
                      IF parts # <<>> /\ recipients # <<>>
                        THEN <<[subject |-> greenhouse_id, recipients |-> recipients,
                                body |-> description]>>
                        ELSE <<>>]
                /\ pc' = [pc EXCEPT ![p] = "input_commit"]
                /\ UNCHANGED resp

\* db.session.commit() of input_form: the reading and the issue are written
\* together, or the except branch rolls the session back.
InputCommit(p) ==
    /\ pc[p] = "input_commit"
    /\ UNCHANGED <<config, greenhouses, employees, now>>
    /\ session' = [session EXCEPT ![p] = EmptySession]
    /\ \/ /\ HasRoom(session[p])
          /\ issues' = CommittedIssues(issues, session[p], now)
          /\ env_data' = CommittedData(env_data, session[p])
          /\ LET request == [req[p] EXCEPT !.data_id = Len(env_data) + 1,
                                           !.new_issue_id =
                                               IF session[p].issues # <<>>
                                                 THEN Len(issues) + 1 ELSE NULL]
             IN  IF notifications_to_send[p] # <<>>
                   THEN /\ pc' = [pc EXCEPT ![p] = "input_notify"]
                        /\ req' = [req EXCEPT ![p] = request]
                        /\ UNCHANGED resp
                   ELSE /\ pc' = [pc EXCEPT ![p] = "idle"]
                        /\ req' = [req EXCEPT ![p] = NoRequest]
                        /\ resp' = Logged(Response("302", <<"recorded">>, "none"),
                                          req[p].log)
          /\ UNCHANGED notifications_to_send
       \/ \* except Exception: rollback, flash, render the form again
          /\ notifications_to_send' = [notifications_to_send EXCEPT ![p] = <<>>]
          /\ pc' = [pc EXCEPT ![p] = "idle"]
          /\ req' = [req EXCEPT ![p] = NoRequest]
          /\ resp' = Logged(Response("200", <<"save_error">>, "none"), req[p].log)
          /\ UNCHANGED <<issues, env_data>>

\* The loop over notifications_to_send after the commit ("recorded" has been
\* flashed).  The list holds at most one notification.  An exception that
\* leaves send_email_notification is not caught here: the request ends with
\* a server error.
InputNotify(p) ==
    /\ pc[p] = "input_notify"
    /\ UNCHANGED <<config, greenhouses, employees, issues, env_data, now, session>>
    /\ \E smtp \in SmtpOutcomes :
          LET notification == Head(notifications_to_send[p])
              email_sent == send_email_notification(config, notification.recipients, smtp)
          IN  resp' =
                 IF email_sent = "raise"
                   THEN Response("500", <<"recorded">>, email_sent)
                 ELSE IF email_sent = "False"
                   THEN Response("302", <<"recorded", "email_failed">>, email_sent)
                 ELSE Response("302", <<"recorded">>, email_sent)
    /\ notifications_to_send' = [notifications_to_send EXCEPT ![p] = <<>>]
    /\ req' = [req EXCEPT ![p] = NoRequest]
    /\ pc' = [pc EXCEPT ![p] = "idle"]

----------------------------------------------------------------------------
(* resolve_issue, POST *)

\* From the request to db.session.commit(): the issue lookup, the permission
\* check, the status test and the pending writes.
ResolvePost(p, issue_id, actor) ==
    /\ pc[p] = "idle"
    /\ UNCHANGED <<config, greenhouses, employees, issues, env_data, now, notifications_to_send>>
    /\ IF issue_id \notin 1..Len(issues)
         THEN \* get_or_404
              /\ resp' = Response("404", <<>>, "none")
              /\ UNCHANGED <<pc, req, session>>
       ELSE LET issue == issues[issue_id]
                request == [ResolveRequest(issue_id, actor) EXCEPT
                               !.greenhouse_id = issue.greenhouse_id,
                               !.read_status = issue.status]
            IN  IF ~can_resolve(employees[actor], issue)
                  THEN /\ resp' = Response("302", <<"no_permission">>, "none")
                       /\ UNCHANGED <<pc, req, session>>
                ELSE IF is_ongoing(issue)
                  THEN /\ session' = [session EXCEPT ![p] =
                              [data |-> <<normal_data(issue.greenhouse_id)>>,
                               issues |-> <<>>,
                               dirty |-> <<ResolveUpdate(issue_id, now)>>]]
                       /\ req' = [req EXCEPT ![p] = request]
                       /\ pc' = [pc EXCEPT ![p] = "resolve_commit"]
                       /\ UNCHANGED resp
                ELSE /\ resp' = Response("302", <<"already_resolved">>, "none")
                     /\ UNCHANGED <<pc, req, session>>

\* db.session.commit() of resolve_issue: the UPDATE of the issue and the
\* INSERT of the baseline reading are written together, or rolled back.
ResolveCommit(p) ==
    /\ pc[p] = "resolve_commit"
    /\ UNCHANGED <<config, greenhouses, employees, now, notifications_to_send>>
    /\ pc' = [pc EXCEPT ![p] = "idle"]
    /\ req' = [req EXCEPT ![p] = NoRequest]
    /\ session' = [session EXCEPT ![p] = EmptySession]
    /\ \/ /\ HasRoom(session[p])
          /\ issues' = CommittedIssues(issues, session[p], now)
          /\ env_data' = CommittedData(env_data, session[p])
          /\ resp' = Response("302", <<"resolved">>, "none")
       \/ /\ resp' = Response("302", <<"resolve_error">>, "none")
          /\ UNCHANGED <<issues, env_data>>

----------------------------------------------------------------------------
(* dashboard, GET *)

\* Greenhouse.query.order_by(Greenhouse.id).all()
RECURSIVE all_greenhouses(_)
all_greenhouses(ids) ==
    IF ids = {} THEN <<>>
    ELSE LET first == CHOOSE g \in ids : \A h \in ids : g <= h
         IN  <<first>> \o all_greenhouses(ids \ {first})

\* any(issue.status == 'Ongoing' for issue in gh.issues)
has_ongoing_issue(rows, gh) ==
    \E i \in 1..Len(rows) : rows[i].greenhouse_id = gh /\ rows[i].status = "Ongoing"

\* One entry per greenhouse, in the order of all_greenhouses.  latest_data is
\* left out: it is selected by the timestamp column.
greenhouse_display_data(rows, ids) ==
    LET ghs == all_greenhouses(ids)
    IN  [k \in 1..Len(ghs) |->
            [greenhouse |-> ghs[k], has_ongoing_issue |-> has_ongoing_issue(rows, ghs[k])]]

\* Variant: the greenhouses without an open issue come first.
sort_key_normal_first(gh_data) ==
    <<IF gh_data.has_ongoing_issue THEN 1 ELSE 0, gh_data.greenhouse>>

sort_key(gh_data) ==
    <<IF gh_data.has_ongoing_issue THEN 0 ELSE 1, gh_data.greenhouse>>

\* The order of Python tuples.
KeyLess(a, b) == a[1] < b[1] \/ (a[1] = b[1] /\ a[2] < b[2])

\* sorted(data, key=sort_key): a stable sort, here by insertion from the end.
RECURSIVE sorted(_)
sorted(data) ==
    IF data = <<>> THEN <<>>
    ELSE LET x == Head(data)
             rest == sorted(Tail(data))
             before == SelectSeq(rest, LAMBDA e : KeyLess(sort_key(e), sort_key(x)))
             after == SelectSeq(rest, LAMBDA e : ~KeyLess(sort_key(e), sort_key(x)))
         IN  before \o <<x>> \o after

\* sorted_greenhouses_data[:4]
displayed_greenhouses_data(data) ==
    LET sorted_greenhouses_data == sorted(data)
    IN  SubSeq(sorted_greenhouses_data, 1,
               IF Len(sorted_greenhouses_data) < 4 THEN Len(sorted_greenhouses_data) ELSE 4)

\* Variant: the count is taken over the displayed entries.
ongoing_issue_count_of_displayed(data) ==
    Len(SelectSeq(displayed_greenhouses_data(data), LAMBDA gh_data : gh_data.has_ongoing_issue))

\* sum(1 for gh_data in greenhouse_display_data if gh_data['has_ongoing_issue'])
ongoing_issue_count(data) ==
    Len(SelectSeq(data, LAMBDA gh_data : gh_data.has_ongoing_issue))

\* count(Issue.id) filter(Issue.status == 'Resolved')
resolved_issue_count(rows) ==
    Len(SelectSeq(rows, LAMBDA issue : issue.status = "Resolved"))

\* The ids that .order_by(Issue.created_at.desc()).first() can return: the
\* open issues of the greenhouse with the latest created_at, NULL for none.
assigned_greenhouse_issue(rows, employee) ==
    LET open == { i \in 1..Len(rows) :
                    /\ rows[i].greenhouse_id = employee.greenhouse_id
                    /\ rows[i].status = "Ongoing" }
    IN  IF employee.greenhouse_id = NULL \/ open = {}
          THEN {NULL}
          ELSE { i \in open : \A j \in open : rows[j].created_at <= rows[i].created_at }

\* The whole handler reads the store and renders the template; it writes
\* nothing.
Dashboard(p, actor) ==
    /\ pc[p] = "idle"
    /\ UNCHANGED <<config, greenhouses, employees, issues, env_data, now, pc, req,
                   session, notifications_to_send>>
    /\ \E assigned \in assigned_greenhouse_issue(issues, employees[actor]) :
          LET data == greenhouse_display_data(issues, greenhouses)
          IN  resp' = [Response("200", <<>>, "none") EXCEPT !.context =
                 [page |-> "dashboard",
                  displayed_greenhouses_data |-> displayed_greenhouses_data(data),
                  ongoing_issue_count |-> ongoing_issue_count(data),
                  resolved_issue_count |-> resolved_issue_count(issues),
                  employee_count |-> Len(employees),
                  assigned_greenhouse_issue |-> assigned]]

----------------------------------------------------------------------------
(* edit_employee, POST *)

\* request.form.get('greenhouse_id'): '' or 'None', the digits of an id, or
\* a string int() rejects.
NoGreenhouse == [kind |-> "none", val |-> NULL]

EditForm(name, email, greenhouse_id, available, is_admin) ==
    [name |-> name, email |-> email, greenhouse_id |-> greenhouse_id,
     available |-> available, is_admin |-> is_admin]

\* The forms posted for an employee: the name and the email empty or not,
\* the email the employee's own or one in use, every greenhouse choice
\* (none, each id, an unknown id, not a number), both checkboxes either way.
EditForms(emps) ==
    { EditForm(name, email, greenhouse_id, available, is_admin) :
        name \in {"", "name"},
        email \in {""} \cup { emps[k].email : k \in 1..Len(emps) },
        greenhouse_id \in {NoGreenhouse, Text}
                             \cup { Number(g) : g \in 1..(NumGreenhouses + 1) },
        available \in BOOLEAN, is_admin \in BOOLEAN }

\* if not g.employee.is_admin and g.employee.id != employee_to_edit.id: refuse
can_edit(employee, actor, employee_id) == employee.is_admin \/ actor = employee_id

\* The greenhouse the form selects, NULL for none; ValueError is set when
\* int() or the lookup of the greenhouse fails.
new_greenhouse_id(greenhouse_id_str, ids) ==
    IF greenhouse_id_str.kind = "none" THEN [ValueError |-> FALSE, id |-> NULL]
    ELSE IF greenhouse_id_str.kind = "text" THEN [ValueError |-> TRUE, id |-> NULL]
    ELSE IF greenhouse_id_str.val \notin ids THEN [ValueError |-> TRUE, id |-> NULL]
    ELSE [ValueError |-> FALSE, id |-> greenhouse_id_str.val]

\* The row after the assignments of the handler: available always, is_admin
\* only when the actor is an admin, email and greenhouse_id from the form.
employee_to_edit(row, employee, form, greenhouse_id) ==
    [row EXCEPT !.available = form.available,
                !.is_admin = IF employee.is_admin THEN form.is_admin ELSE @,
                !.email = form.email,
                !.greenhouse_id = greenhouse_id]

\* The pending UPDATE of an employee row.
EmployeeUpdate(employee_id, row) == [id |-> employee_id, row |-> row]

CommittedEmployees(rows, s) ==
    [k \in 1..Len(rows) |->
        IF \E d \in 1..Len(s.dirty) : s.dirty[d].id = k
          THEN s.dirty[CHOOSE d \in 1..Len(s.dirty) : s.dirty[d].id = k].row
          ELSE rows[k]]

EditRequest(employee_id, actor) ==
    [NoRequest EXCEPT !.kind = "edit", !.actor = actor]

\* From the request to db.session.commit(): the employee lookup, the
\* permission check, the assignments and the validations.  A return before
\* the commit leaves the assignments behind with the request's session.
EditPost(p, actor, employee_id, form) ==
    /\ pc[p] = "idle"
    /\ UNCHANGED <<config, greenhouses, employees, issues, env_data, now,
                   notifications_to_send>>
    /\ IF employee_id \notin 1..Len(employees)
         THEN \* get_or_404
              /\ resp' = Response("404", <<>>, "none")
              /\ UNCHANGED <<pc, req, session>>
       ELSE IF ~can_edit(employees[actor], actor, employee_id)
         THEN /\ resp' = Response("302", <<"edit_no_permission">>, "none")
              /\ UNCHANGED <<pc, req, session>>
       ELSE IF form.name = "" \/ form.email = ""
         THEN /\ resp' = Response("200", <<"name_email_required">>, "none")
              /\ UNCHANGED <<pc, req, session>>
       ELSE IF /\ form.email # employees[employee_id].email
               /\ \E k \in 1..Len(employees) :
                     k # employee_id /\ employees[k].email = form.email
         THEN /\ resp' = Response("200", <<"email_in_use">>, "none")
              /\ UNCHANGED <<pc, req, session>>
       ELSE IF new_greenhouse_id(form.greenhouse_id, greenhouses).ValueError
         THEN /\ resp' = Response("200", <<"invalid_greenhouse">>, "none")
              /\ UNCHANGED <<pc, req, session>>
       ELSE /\ session' = [session EXCEPT ![p] =
                  [data |-> <<>>, issues |-> <<>>,
                   dirty |-> <<EmployeeUpdate(employee_id,
                                  employee_to_edit(employees[employee_id], employees[actor],
                                      form, new_greenhouse_id(form.greenhouse_id, greenhouses).id))>>]]
            /\ req' = [req EXCEPT ![p] = EditRequest(employee_id, actor)]
            /\ pc' = [pc EXCEPT ![p] = "edit_commit"]
            /\ UNCHANGED resp

\* db.session.commit() of edit_employee, or the rollback of the except branch.
EditCommit(p) ==
    /\ pc[p] = "edit_commit"
    /\ UNCHANGED <<config, greenhouses, issues, env_data, now, notifications_to_send>>
    /\ pc' = [pc EXCEPT ![p] = "idle"]
    /\ req' = [req EXCEPT ![p] = NoRequest]
    /\ session' = [session EXCEPT ![p] = EmptySession]
    /\ \/ /\ employees' = CommittedEmployees(employees, session[p])
          /\ resp' = Response("302", <<"employee_updated">>, "none")
       \/ /\ resp' = Response("200", <<"edit_error">>, "none")
          /\ UNCHANGED employees

----------------------------------------------------------------------------
(* Specifications *)

EmployeeIds == 1..Len(InitialEmployees)

Next ==
    \/ Tick
    \/ \E p \in Procs, greenhouse_id \in 1..(NumGreenhouses + 1), form \in Forms :
          InputPost(p, greenhouse_id, form)
    \/ \E p \in Procs : InputCommit(p)
    \/ \E p \in Procs : InputNotify(p)
    \/ \E p \in Procs, issue_id \in 1..(MaxIssues + 1), actor \in EmployeeIds :
          ResolvePost(p, issue_id, actor)
    \/ \E p \in Procs : ResolveCommit(p)
    \/ \E p \in Procs, actor \in EmployeeIds : Dashboard(p, actor)

Spec == Init /\ [][Next]_vars

\* The validator specification: one worker takes a submission whose metrics
\* lie just below, at or just above the bounds, into an empty store, and
\* serves it to the end.
NextEval ==
    \/ /\ env_data = <<>>
       /\ pc[1] = "idle"
       /\ \E greenhouse_id \in GreenhouseIds, form \in BoundaryForms :
             InputPost(1, greenhouse_id, form)
    \/ InputCommit(1)
    \/ InputNotify(1)

SpecEval == Init /\ [][NextEval]_vars

\* The staff specification: the three employees are assigned to any
\* greenhouse or to none, available or not (the application keeps every
\* email non-empty and unique); one worker takes a submission, numeric or
\* not, into an empty store and serves it to the end.
StaffTables ==
    { <<Employee(TRUE, g1, a1, "admin@gt"), Employee(FALSE, g2, a2, "e2@gt"),
        Employee(FALSE, g3, a3, "e3@gt")>> :
        g1 \in {NULL} \cup GreenhouseIds, g2 \in {NULL} \cup GreenhouseIds,
        g3 \in {NULL} \cup GreenhouseIds,
        a1 \in BOOLEAN, a2 \in BOOLEAN, a3 \in BOOLEAN }

InitStaff ==
    /\ config \in Configs
    /\ greenhouses = GreenhouseIds
    /\ employees \in StaffTables
    /\ issues = <<>>
    /\ env_data = <<>>
    /\ now = 1
    /\ pc = [p \in Procs |-> "idle"]
    /\ req = [p \in Procs |-> NoRequest]
    /\ session = [p \in Procs |-> EmptySession]
    /\ notifications_to_send = [p \in Procs |-> <<>>]
    /\ resp = Response("", <<>>, "none")

NextStaff ==
    \/ /\ env_data = <<>>
       /\ pc[1] = "idle"
       /\ \E greenhouse_id \in GreenhouseIds, form \in Forms \cup TextForms :
             InputPost(1, greenhouse_id, form)
    \/ InputCommit(1)
    \/ InputNotify(1)

SpecStaff == InitStaff /\ [][NextStaff]_vars

\* The dashboard specification: a store of NumDashGreenhouses greenhouses,
\* each with no issue, one open, one closed, two open, or one open and one
\* closed, as submissions and resolutions leave it; any employee loads the
\* dashboard.
IssueProfiles ==
    { <<>>, <<"Ongoing">>, <<"Resolved">>, <<"Ongoing", "Ongoing">>, <<"Ongoing", "Resolved">> }

StoredIssue(greenhouse_id, status) ==
    [Issue(greenhouse_id,
           full_issue_description(greenhouse_id, <<Violation("temperature", 1900)>>))
        EXCEPT !.status = status, !.created_at = 1,
               !.resolved_at = IF status = "Resolved" THEN 1 ELSE NULL]

RECURSIVE StoredIssues(_, _)
StoredIssues(profile, greenhouse_id) ==
    IF greenhouse_id > NumDashGreenhouses THEN <<>>
    ELSE [k \in 1..Len(profile[greenhouse_id]) |->
             StoredIssue(greenhouse_id, profile[greenhouse_id][k])]
         \o StoredIssues(profile, greenhouse_id + 1)

\* The readings behind the issues: the submission that opened each one, and
\* the baseline row of each resolution.
RECURSIVE StoredData(_, _)
StoredData(rows, k) ==
    IF k > Len(rows) THEN <<>>
    ELSE <<EnvironmentalData(rows[k].greenhouse_id, 1900, 4500, 50000, 200000, 620, 3500,
                             "manual")>>
         \o (IF rows[k].status = "Resolved"
               THEN <<normal_data(rows[k].greenhouse_id)>> ELSE <<>>)
         \o StoredData(rows, k + 1)

InitDash ==
    /\ config \in Configs
    /\ greenhouses = 1..NumDashGreenhouses
    /\ employees = InitialEmployees
    /\ \E profile \in [1..NumDashGreenhouses -> IssueProfiles] :
          /\ issues = StoredIssues(profile, 1)
          /\ env_data = StoredData(StoredIssues(profile, 1), 1)
    /\ now = 1
    /\ pc = [p \in Procs |-> "idle"]
    /\ req = [p \in Procs |-> NoRequest]
    /\ session = [p \in Procs |-> EmptySession]
    /\ notifications_to_send = [p \in Procs |-> <<>>]
    /\ resp = Response("", <<>>, "none")

NextDash == \E actor \in EmployeeIds : Dashboard(1, actor)

SpecDash == InitDash /\ [][NextDash]_vars

\* The staff-edit specification: the store holds one 'Ongoing' Issue on
\* greenhouse 2, which has no staff; the employees that are not admins post
\* edits of any employee's record and resolve requests, one at a time.
InitEdit ==
    /\ config \in Configs
    /\ greenhouses = GreenhouseIds
    /\ employees = InitialEmployees
    /\ issues = <<StoredIssue(2, "Ongoing")>>
    /\ env_data = StoredData(<<StoredIssue(2, "Ongoing")>>, 1)
    /\ now = 1
    /\ pc = [p \in Procs |-> "idle"]
    /\ req = [p \in Procs |-> NoRequest]
    /\ session = [p \in Procs |-> EmptySession]
    /\ notifications_to_send = [p \in Procs |-> <<>>]
    /\ resp = Response("", <<>>, "none")

NonAdmins == { k \in 1..Len(employees) : ~employees[k].is_admin }

NextEdit ==
    \/ \E actor \in NonAdmins, employee_id \in 1..(Len(employees) + 1),
          form \in EditForms(employees) :
          EditPost(1, actor, employee_id, form)
    \/ EditCommit(1)
    \/ \E actor \in NonAdmins, issue_id \in 1..(Len(issues) + 1) :
          ResolvePost(1, issue_id, actor)
    \/ ResolveCommit(1)

SpecEdit == InitEdit /\ [][NextEdit]_vars

----------------------------------------------------------------------------
(* Properties *)

Workers == DOMAIN pc

IssueRows == 1..Len(issues)

\* C1: in every reachable state each Issue has resolved_at non-null exactly
\* when its status is 'Resolved'.
C1_ResolvedAtIffResolved ==
    \A i \in IssueRows :
        (issues[i].resolved_at # NULL) <=> (issues[i].status = "Resolved")

\* A resolve has been committed: one issue is Resolved with its timestamp.
C1_Witness ==
    /\ resp.flash = <<"resolved">>
    /\ \E i \in IssueRows :
          issues[i].status = "Resolved" /\ issues[i].resolved_at # NULL

\* C2: every Issue is created 'Ongoing', the only status change of a step is
\* Ongoing -> Resolved, and a 'Resolved' Issue stays 'Resolved'.
C2_OneWayLifecycle ==
    [][ /\ Len(issues') >= Len(issues)
        /\ \A i \in IssueRows :
              /\ issues[i].status = "Resolved" => issues'[i].status = "Resolved"
              /\ issues'[i].status # issues[i].status =>
                    issues[i].status = "Ongoing" /\ issues'[i].status = "Resolved"
        /\ \A i \in (Len(issues) + 1)..Len(issues') :
              issues'[i].status = "Ongoing" ]_vars

\* An issue was resolved and a later submission opened another issue, which
\* is Ongoing, while the first one is still Resolved.
C2_Witness ==
    \E i, j \in IssueRows :
        i < j /\ issues[i].status = "Resolved" /\ issues[j].status = "Ongoing"

\* The baseline row the configuration prescribes for a greenhouse.
BaselineRow(greenhouse_id) ==
    [greenhouse_id |-> greenhouse_id, temperature |-> 2250, humidity |-> 5000,
     co2 |-> 70000, light_intensity |-> 500000, soil_ph |-> 650,
     soil_moisture |-> 4500, source |-> "resolution"]

\* C3: the commit of a resolve that read its Issue as 'Ongoing' and passed the
\* permission check leaves the Issue 'Resolved' with a non-null resolved_at
\* >= created_at, and appends exactly one row, for the Issue's greenhouse,
\* source 'resolution', carrying the six baseline values.
C3_ResolveEffect ==
    [][ \A p \in Workers :
          (ResolveCommit(p) /\ req[p].read_status = "Ongoing"
              /\ resp'.flash = <<"resolved">>) =>
             LET i == req[p].issue_id
             IN  /\ issues'[i].status = "Resolved"
                 /\ issues'[i].resolved_at # NULL
                 /\ issues'[i].resolved_at >= issues'[i].created_at
                 /\ issues'[i].created_at = issues[i].created_at
                 /\ Len(env_data') = Len(env_data) + 1
                 /\ SubSeq(env_data', 1, Len(env_data)) = env_data
                 /\ env_data'[Len(env_data')] = BaselineRow(issues[i].greenhouse_id) ]_vars

\* An issue opened by the temperature-19 reading was resolved at a later
\* time than it was created, and the last row is the baseline row.
C3_Witness ==
    /\ resp.flash = <<"resolved">>
    /\ env_data # <<>>
    /\ env_data[Len(env_data)].source = "resolution"
    /\ env_data[Len(env_data)].temperature = 2250
    /\ \E i \in IssueRows :
          /\ issues[i].status = "Resolved"
          /\ issues[i].resolved_at > issues[i].created_at
          /\ \E k \in 1..Len(env_data) :
                /\ env_data[k].source = "manual"
                /\ env_data[k].greenhouse_id = issues[i].greenhouse_id
                /\ env_data[k].temperature = 1900

\* The actor may resolve the issue: an admin, or assigned to its greenhouse.
Permitted(actor, issue_id) ==
    \/ employees[actor].is_admin
    \/ employees[actor].greenhouse_id = issues[issue_id].greenhouse_id

\* C4: a resolve request on an Issue that is already 'Resolved' changes
\* neither the Issue table nor the EnvironmentalData table and leaves nothing
\* pending, whoever sends it; a request that passes the permission check is
\* answered "already resolved".
C4_ResolveIdempotent ==
    [][ \A p \in Workers, issue_id \in IssueRows, actor \in DOMAIN employees :
          (ResolvePost(p, issue_id, actor) /\ issues[issue_id].status = "Resolved") =>
             /\ issues' = issues
             /\ env_data' = env_data
             /\ pc'[p] = "idle"
             /\ session'[p] = EmptySession
             /\ Permitted(actor, issue_id) => resp'.flash = <<"already_resolved">> ]_vars

\* A permitted actor was answered "already resolved" for a Resolved issue.
C4_Witness ==
    /\ resp.flash = <<"already_resolved">>
    /\ \E i \in IssueRows : issues[i].status = "Resolved"

\* C5: a resolve request by an actor that is neither an admin nor assigned to
\* the Issue's greenhouse is answered "permission denied" and changes neither
\* table nor leaves anything pending; and a resolve that is committed was
\* sent by an admin or by an employee assigned to the Issue's greenhouse.
C5_PermissionDenied ==
    [][ /\ \A p \in Workers, issue_id \in IssueRows, actor \in DOMAIN employees :
              (ResolvePost(p, issue_id, actor) /\ ~Permitted(actor, issue_id)) =>
                 /\ resp'.flash = <<"no_permission">>
                 /\ issues' = issues
                 /\ env_data' = env_data
                 /\ pc'[p] = "idle"
                 /\ session'[p] = EmptySession
        /\ \A p \in Workers :
              (ResolveCommit(p) /\ resp'.flash = <<"resolved">>) =>
                 Permitted(req[p].actor, req[p].issue_id) ]_vars

\* A request was denied while the issue it named is still Ongoing.
C5_Witness ==
    /\ resp.flash = <<"no_permission">>
    /\ \E i \in IssueRows : issues[i].status = "Ongoing"

\* C6: the commit of a submission persists the reading row together with
\* the Issue row it holds (if any), or persists neither; the commit of a
\* resolve persists the status/resolved_at change together with the baseline
\* row, or neither.  After a failed commit both tables are as they were and
\* nothing is left pending in the worker's session.
C6_AtomicWrites ==
    [][ \A p \in Workers :
          /\ InputCommit(p) =>
                \/ /\ env_data' = env_data \o session[p].data
                   /\ Len(session[p].data) = 1
                   /\ Len(issues') = Len(issues) + Len(session[p].issues)
                   /\ SubSeq(issues', 1, Len(issues)) = issues
                   /\ ~(pc'[p] = "idle" /\ resp'.flash = <<"save_error">>)
                \/ /\ env_data' = env_data
                   /\ issues' = issues
                   /\ session'[p] = EmptySession
                   /\ resp'.flash = <<"save_error">>
          /\ ResolveCommit(p) =>
                \/ /\ Len(env_data') = Len(env_data) + 1
                   /\ issues'[req[p].issue_id].status = "Resolved"
                   /\ issues'[req[p].issue_id].resolved_at # NULL
                   /\ resp'.flash = <<"resolved">>
                \/ /\ env_data' = env_data
                   /\ issues' = issues
                   /\ session'[p] = EmptySession
                   /\ resp'.flash = <<"resolve_error">> ]_vars

\* A commit failed in a store that already holds an Ongoing issue and its
\* reading, and the store kept both.
C6_Witness ==
    /\ resp.flash \in {<<"save_error">>, <<"resolve_error">>}
    /\ env_data # <<>>
    /\ \E i \in IssueRows : issues[i].status = "Ongoing"

\* C7: a notification is dispatched only by a submission whose
\* rows are committed, the dispatch changes neither table, and when the
\* dispatch does not succeed the request still completes (a redirect) with
\* the delivery warning flashed.
C7_DispatchAfterCommit ==
    [][ \A p \in Workers :
          InputNotify(p) =>
             /\ req[p].data_id \in 1..Len(env_data)
             /\ req[p].new_issue_id \in IssueRows
             /\ env_data[req[p].data_id].source = "manual"
             /\ issues[req[p].new_issue_id].description =
                   Head(notifications_to_send[p]).body
             /\ issues' = issues
             /\ env_data' = env_data
             /\ resp'.email # "True" =>
                   resp'.http = "302" /\ resp'.flash = <<"recorded", "email_failed">> ]_vars

\* The out-of-range conditions of the six metrics, in the fixed order.
OutOfRange(metric, v) ==
    CASE metric = "temperature"     -> v < 2000 \/ v > 2500
      [] metric = "humidity"        -> v < 4000 \/ v > 6000
      [] metric = "co2"             -> v < 40000 \/ v > 100000
      [] metric = "light_intensity" -> v < 100000 \/ v > 1000000
      [] metric = "soil_ph"         -> v < 600 \/ v > 700
      [] metric = "soil_moisture"   -> v < 3000 \/ v > 6000

MetricValue(row, metric) ==
    CASE metric = "temperature"     -> row.temperature
      [] metric = "humidity"        -> row.humidity
      [] metric = "co2"             -> row.co2
      [] metric = "light_intensity" -> row.light_intensity
      [] metric = "soil_ph"         -> row.soil_ph
      [] metric = "soil_moisture"   -> row.soil_moisture

FailingMetrics(row) ==
    {k \in 1..Len(Metrics) : OutOfRange(Metrics[k], MetricValue(row, Metrics[k]))}

\* C8: the commit of a submission opens exactly one Issue, 'Ongoing' and for
\* the submitted greenhouse, when a metric of the reading is out of range, and
\* leaves the Issue table as it was when all six are in range.
C8_OneIssuePerViolatingReading ==
    [][ \A p \in Workers :
          (InputCommit(p) /\ Len(env_data') = Len(env_data) + 1) =>
             LET reading == env_data'[Len(env_data')]
             IN  IF FailingMetrics(reading) # {}
                   THEN /\ Len(issues') = Len(issues) + 1
                        /\ SubSeq(issues', 1, Len(issues)) = issues
                        /\ issues'[Len(issues')].status = "Ongoing"
                        /\ issues'[Len(issues')].greenhouse_id = reading.greenhouse_id
                   ELSE issues' = issues ]_vars

\* A reading whose only failing metric is soil moisture has been committed
\* with its Issue.
C8_Witness ==
    /\ Len(env_data) = 1
    /\ FailingMetrics(env_data[1]) = {6}
    /\ Len(issues) = 1
    /\ issues[1].status = "Ongoing"
    /\ issues[1].greenhouse_id = env_data[1].greenhouse_id

\* The violation entries a reading must produce: the failing metrics from
\* position k on, in the fixed order, each with its value.
RECURSIVE ExpectedViolations(_, _)
ExpectedViolations(row, k) ==
    IF k > Len(Metrics) THEN <<>>
    ELSE (IF k \in FailingMetrics(row)
            THEN <<[metric |-> Metrics[k], value |-> MetricValue(row, Metrics[k])]>>
            ELSE <<>>)
         \o ExpectedViolations(row, k + 1)

\* C9: the evaluation of a reading yields one violation entry per failing
\* metric and none for a passing one, in the order temperature, humidity,
\* CO2, light intensity, soil pH, soil moisture; an Issue is pending exactly
\* when there is an entry, and every Issue's description has 1 to 6 entries.
C9_ViolationsInMetricOrder ==
    /\ \A p \in Workers :
          pc[p] = "input_commit" =>
             LET expected == ExpectedViolations(session[p].data[1], 1)
             IN  IF expected = <<>>
                   THEN session[p].issues = <<>>
                   ELSE /\ Len(session[p].issues) = 1
                        /\ session[p].issues[1].description.parts = expected
    /\ \A i \in IssueRows :
          /\ Len(issues[i].description.parts) >= 1
          /\ Len(issues[i].description.parts) <= 6

\* A reading with temperature and humidity below range and soil pH above
\* has been evaluated: three entries, in that order.
C9_Witness ==
    \E p \in Workers :
        /\ pc[p] = "input_commit"
        /\ Len(session[p].issues) = 1
        /\ LET parts == session[p].issues[1].description.parts
           IN  /\ Len(parts) = 3
               /\ parts[1].metric = "temperature"
               /\ parts[2].metric = "humidity"
               /\ parts[3].metric = "soil_ph"

\* The readings the workers have evaluated and hold for commit.
PendingReadings ==
    {session[p].data[1] : p \in {q \in Workers : pc[q] = "input_commit"}}

\* C10: on every evaluated reading each range predicate is true exactly for
\* a value within its inclusive bounds (temperature 20-25, humidity 40-60,
\* CO2 400-1000, light 1000-10000, soil pH 6-7, soil moisture 30-60).
C10_InclusiveBounds ==
    \A r \in PendingReadings :
        /\ check_temperature(r.temperature)
              <=> (2000 <= r.temperature /\ r.temperature <= 2500)
        /\ check_humidity(r.humidity)
              <=> (4000 <= r.humidity /\ r.humidity <= 6000)
        /\ check_co2(r.co2)
              <=> (40000 <= r.co2 /\ r.co2 <= 100000)
        /\ check_light_intensity(r.light_intensity)
              <=> (100000 <= r.light_intensity /\ r.light_intensity <= 1000000)
        /\ check_soil_ph(r.soil_ph)
              <=> (600 <= r.soil_ph /\ r.soil_ph <= 700)
        /\ check_soil_moisture(r.soil_moisture)
              <=> (3000 <= r.soil_moisture /\ r.soil_moisture <= 6000)

\* A reading with every metric exactly on a bound (lower for the first
\* three, upper for the last three) has been evaluated and found in range.
C10_Witness ==
    \E p \in Workers :
        /\ pc[p] = "input_commit"
        /\ session[p].issues = <<>>
        /\ session[p].data[1].temperature = 2000
        /\ session[p].data[1].humidity = 4000
        /\ session[p].data[1].co2 = 40000
        /\ session[p].data[1].light_intensity = 1000000
        /\ session[p].data[1].soil_ph = 700
        /\ session[p].data[1].soil_moisture = 6000

\* A form whose six fields are all numbers.
Numeric(form) ==
    /\ form.temperature.kind = "number" /\ form.humidity.kind = "number"
    /\ form.co2.kind = "number" /\ form.light_intensity.kind = "number"
    /\ form.soil_ph.kind = "number" /\ form.soil_moisture.kind = "number"

\* The row a numeric submission is to leave behind.
SubmittedRow(greenhouse_id, form) ==
    [greenhouse_id |-> greenhouse_id, temperature |-> form.temperature.val,
     humidity |-> form.humidity.val, co2 |-> form.co2.val,
     light_intensity |-> form.light_intensity.val, soil_ph |-> form.soil_ph.val,
     soil_moisture |-> form.soil_moisture.val, source |-> "manual"]

\* C11: a submission with six numeric metrics holds exactly one row for its
\* commit, source 'manual', with the greenhouse and the six values as
\* submitted; the row is kept as it is until the commit, and a commit that
\* succeeds appends exactly that row to EnvironmentalData, whether or not a
\* metric is out of range.
C11_OneManualRowPerSubmission ==
    [][ \A p \in Workers :
          /\ \A greenhouse_id \in greenhouses, form \in Forms \cup TextForms :
                (Numeric(form) /\ InputPost(p, greenhouse_id, form)) =>
                   session'[p].data = <<SubmittedRow(greenhouse_id, form)>>
          /\ (pc[p] = "input_commit" /\ pc'[p] = "input_commit") =>
                session'[p].data = session[p].data
          /\ (InputCommit(p) /\ ~(pc'[p] = "idle" /\ resp'.flash = <<"save_error">>)) =>
                /\ Len(session[p].data) = 1
                /\ session[p].data[1].source = "manual"
                /\ env_data' = env_data \o session[p].data ]_vars

\* A submission with temperature and humidity out of range and a soil pH
\* of 6.2 has been committed: its row is the one row of the store.
C11_Witness ==
    /\ Len(env_data) = 1
    /\ env_data[1].source = "manual"
    /\ FailingMetrics(env_data[1]) = {1, 2}
    /\ env_data[1].soil_ph = 620
    /\ resp.flash # <<"save_error">>
    /\ \A p \in Workers : pc[p] = "idle"

\* C12: a submission for an existing greenhouse in which one of the six
\* fields is not a number ends at once with the validation error: no row is
\* added to EnvironmentalData or Issue, nothing is left pending in the
\* session, and no notification is prepared or dispatched.
C12_NonNumericRejected ==
    [][ \A p \in Workers :
          \A greenhouse_id \in greenhouses, form \in Forms \cup TextForms :
             (~Numeric(form) /\ InputPost(p, greenhouse_id, form)) =>
                /\ resp'.http = "200"
                /\ resp'.flash = <<"invalid_input">>
                /\ resp'.email = "none"
                /\ env_data' = env_data
                /\ issues' = issues
                /\ pc'[p] = "idle"
                /\ session'[p] = EmptySession
                /\ notifications_to_send'[p] = <<>> ]_vars

\* A non-numeric submission for a greenhouse that has an available employee
\* has been rejected: the store is empty and every worker is idle.
C12_Witness ==
    /\ resp.flash = <<"invalid_input">>
    /\ env_data = <<>>
    /\ issues = <<>>
    /\ \E k \in 1..Len(employees) :
          employees[k].greenhouse_id # NULL /\ employees[k].available
    /\ \A p \in Workers : pc[p] = "idle" /\ session[p] = EmptySession

\* The employees a notification about a greenhouse is for: assigned to it,
\* with an email, and available.
Eligible(greenhouse_id) ==
    { k \in 1..Len(employees) :
        /\ employees[k].greenhouse_id = greenhouse_id
        /\ employees[k].email # ""
        /\ employees[k].available }

\* The workers that hold a submission between its evaluation and its answer.
Submitting == { p \in Workers : pc[p] \in {"input_commit", "input_notify"} }

\* The submission of worker p opens (or has opened) an Issue.
OpensIssue(p) ==
    IF pc[p] = "input_commit" THEN session[p].issues # <<>> ELSE req[p].new_issue_id # NULL

\* C13: the notification a submission prepares when it opens an Issue, and
\* later dispatches, is addressed to the emails of the employees assigned to
\* the submitted greenhouse that have an email and are available, each once,
\* and to nobody else; there is no notification when no such employee exists
\* or when no Issue is opened.
C13_RecipientsAreEligibleStaff ==
    \A p \in Submitting :
        LET expected == { employees[k].email : k \in Eligible(req[p].greenhouse_id) }
            sent == notifications_to_send[p]
        IN  IF OpensIssue(p) /\ expected # {}
              THEN /\ Len(sent) = 1
                   /\ { sent[1].recipients[i] : i \in 1..Len(sent[1].recipients) } = expected
                   /\ Len(sent[1].recipients) = Cardinality(expected)
              ELSE sent = <<>>

\* A notification about greenhouse 1 is being dispatched to the one eligible
\* employee, while another employee of greenhouse 1 is unavailable and an
\* available one is assigned to greenhouse 2.
C13_Witness ==
    \E p \in Workers :
        /\ pc[p] = "input_notify"
        /\ req[p].greenhouse_id = 1
        /\ employees[1].greenhouse_id = 1 /\ ~employees[1].available
        /\ employees[2].greenhouse_id = 1 /\ employees[2].available
        /\ employees[3].greenhouse_id = 2 /\ employees[3].available
        /\ Head(notifications_to_send[p]).recipients = <<employees[2].email>>

\* C14: a submission with a metric out of range for a greenhouse without an
\* eligible employee is held for commit with its Issue, like any other; its
\* commit ends the request without a dispatch, with the warning about the
\* missing recipients in the application log, and, unless the write itself
\* fails, with the reading and the 'Ongoing' Issue stored and the plain
\* "recorded" message flashed.
C14_NoRecipientsStillRecorded ==
    [][ \A p \in Workers :
          /\ \A greenhouse_id \in greenhouses, form \in Forms \cup TextForms :
                ( /\ Numeric(form)
                  /\ FailingMetrics(SubmittedRow(greenhouse_id, form)) # {}
                  /\ Eligible(greenhouse_id) = {}
                  /\ InputPost(p, greenhouse_id, form) ) =>
                   /\ pc'[p] = "input_commit"
                   /\ Len(session'[p].issues) = 1
                   /\ notifications_to_send'[p] = <<>>
          /\ ( /\ InputCommit(p)
               /\ session[p].issues # <<>>
               /\ Eligible(req[p].greenhouse_id) = {} ) =>
                /\ pc'[p] = "idle"
                /\ notifications_to_send'[p] = <<>>
                /\ resp'.email = "none"
                /\ resp'.log = <<"no_recipients">>
                /\ \/ /\ resp'.flash = <<"recorded">>
                      /\ env_data' = env_data \o session[p].data
                      /\ Len(issues') = Len(issues) + 1
                      /\ issues'[Len(issues')].status = "Ongoing"
                      /\ issues'[Len(issues')].greenhouse_id = req[p].greenhouse_id
                   \/ /\ resp'.flash = <<"save_error">>
                      /\ env_data' = env_data
                      /\ issues' = issues ]_vars

\* An out-of-range reading for greenhouse 1, whose only employee is
\* unavailable, has been stored with its Issue; nothing was dispatched and
\* the warning is in the log.
C14_Witness ==
    /\ resp.flash = <<"recorded">>
    /\ resp.email = "none"
    /\ resp.log = <<"no_recipients">>
    /\ Len(issues) = 1 /\ issues[1].status = "Ongoing" /\ issues[1].greenhouse_id = 1
    /\ Len(env_data) = 1 /\ env_data[1].greenhouse_id = 1
    /\ \E k \in 1..Len(employees) : employees[k].greenhouse_id = 1
    /\ Eligible(1) = {}
    /\ \A p \in Workers : pc[p] = "idle"

\* The greenhouses that have an Issue with status 'Ongoing'.
WithOngoing ==
    { g \in greenhouses : \E i \in IssueRows :
                             issues[i].greenhouse_id = g /\ issues[i].status = "Ongoing" }

\* Greenhouse h is listed before greenhouse g.
ListedBefore(h, g) ==
    \/ h \in WithOngoing /\ g \notin WithOngoing
    \/ (h \in WithOngoing <=> g \in WithOngoing) /\ h < g

\* The place of a greenhouse in the full list.
Rank(g) == 1 + Cardinality({ h \in greenhouses : ListedBefore(h, g) })

\* A step that answers with a freshly rendered dashboard.
DashboardRendered == resp' # resp /\ resp'.context.page = "dashboard"

\* C15: the dashboard shows the greenhouses that have an 'Ongoing' Issue
\* first and the others after them, each group by ascending id, cut to the
\* first four, each entry flagged with whether it has an 'Ongoing' Issue; and
\* rendering it changes no table and no session.
C15_DashboardOrder ==
    [][ DashboardRendered =>
          LET shown == resp'.context.displayed_greenhouses_data
          IN  /\ Len(shown) = (IF Cardinality(greenhouses) < 4
                                 THEN Cardinality(greenhouses) ELSE 4)
              /\ \A k \in 1..Len(shown) :
                    /\ shown[k].greenhouse \in greenhouses
                    /\ Rank(shown[k].greenhouse) = k
                    /\ shown[k].has_ongoing_issue <=> shown[k].greenhouse \in WithOngoing
              /\ greenhouses' = greenhouses
              /\ employees' = employees
              /\ issues' = issues
              /\ env_data' = env_data
              /\ session' = session ]_vars

\* Five greenhouses, 'Ongoing' Issues on 2 and 3 only: the dashboard shows
\* 2, 3, 1, 4.
C15_Witness ==
    /\ resp.context.page = "dashboard"
    /\ WithOngoing = {2, 3}
    /\ Cardinality(greenhouses) > 4
    /\ LET shown == resp.context.displayed_greenhouses_data
       IN  [k \in 1..Len(shown) |-> shown[k].greenhouse] = <<2, 3, 1, 4>>

\* C16: the dashboard's ongoing count is the number of greenhouses, shown
\* or not, that have at least one 'Ongoing' Issue, however many they have,
\* and its resolved count is the number of Issues with status 'Resolved'.
C16_DashboardCounts ==
    [][ DashboardRendered =>
          /\ resp'.context.ongoing_issue_count = Cardinality(WithOngoing)
          /\ resp'.context.resolved_issue_count =
                Cardinality({ i \in IssueRows : issues[i].status = "Resolved" }) ]_vars

\* More greenhouses have an 'Ongoing' Issue than the dashboard shows, one
\* of them has two 'Ongoing' Issues and another has one 'Ongoing' and one
\* 'Resolved': each counts once.
C16_Witness ==
    /\ resp.context.page = "dashboard"
    /\ resp.context.ongoing_issue_count > Len(resp.context.displayed_greenhouses_data)
    /\ resp.context.ongoing_issue_count = Cardinality(WithOngoing)
    /\ \E i, j \in IssueRows :
          /\ i # j
          /\ issues[i].greenhouse_id = issues[j].greenhouse_id
          /\ issues[i].status = "Ongoing" /\ issues[j].status = "Ongoing"
    /\ \E i, j \in IssueRows :
          /\ issues[i].greenhouse_id = issues[j].greenhouse_id
          /\ issues[i].status = "Ongoing" /\ issues[j].status = "Resolved"
    /\ resp.context.resolved_issue_count >= 1

\* C17: once an Issue's resolved_at is written it is never written again:
\* no step changes a resolved_at that is not NULL.
C17_ResolvedAtWrittenOnce ==
    [][ \A i \in IssueRows :
          issues[i].resolved_at # NULL => issues'[i].resolved_at = issues[i].resolved_at ]_vars

\* The greenhouse of worker p's submission already has an 'Ongoing' Issue,
\* stored or held for commit by another worker.
AlreadyOpen(p) ==
    \/ \E i \in IssueRows :
          /\ issues[i].greenhouse_id = req[p].greenhouse_id
          /\ issues[i].status = "Ongoing"
    \/ \E q \in Workers \ {p} :
          /\ pc[q] = "input_commit"
          /\ req[q].greenhouse_id = req[p].greenhouse_id
          /\ session[q].issues # <<>>

\* C18: a submission that found a metric out of range for a greenhouse that
\* already has an 'Ongoing' Issue, stored or about to be stored by a
\* simultaneous submission, still opens its own: unless the write fails, its
\* commit adds one 'Ongoing' Issue for that greenhouse, leaves the stored
\* Issues as they are and leaves the other submission's Issue pending.
C18_NoDeduplication ==
    [][ \A p \in Workers :
          ( /\ InputCommit(p)
            /\ session[p].issues # <<>>
            /\ AlreadyOpen(p)
            /\ ~(pc'[p] = "idle" /\ resp'.flash = <<"save_error">>) ) =>
             /\ Len(issues') = Len(issues) + 1
             /\ SubSeq(issues', 1, Len(issues)) = issues
             /\ issues'[Len(issues')].status = "Ongoing"
             /\ issues'[Len(issues')].greenhouse_id = req[p].greenhouse_id
             /\ \A q \in Workers \ {p} : session'[q] = session[q] ]_vars

\* One greenhouse has two 'Ongoing' Issues, each with its own reading.
C18_Witness ==
    /\ Len(issues) = 2
    /\ issues[1].status = "Ongoing" /\ issues[2].status = "Ongoing"
    /\ issues[1].greenhouse_id = issues[2].greenhouse_id
    /\ Len(env_data) = 2
    /\ env_data[1].source = "manual" /\ env_data[2].source = "manual"

\* C19: EnvironmentalData is append-only: every step leaves the rows that
\* are stored as they are and where they are, and only adds rows after them.
C19_AppendOnly ==
    [][ /\ Len(env_data') >= Len(env_data)
        /\ SubSeq(env_data', 1, Len(env_data)) = env_data ]_vars

\* Submissions, a resolution and a dashboard have been served: the store
\* holds manual rows and a baseline row.
C19_Witness ==
    /\ resp.context.page = "dashboard"
    /\ Len(env_data) = 3
    /\ \E k \in 1..Len(env_data) : env_data[k].source = "manual"
    /\ \E k \in 1..Len(env_data) : env_data[k].source = "resolution"

\* C20: send_email_notification hands a boolean back to its caller in every
\* configuration and for every transport outcome: no answer reports an
\* exception that left it.
C20_NeverRaises == resp.email \in {"none", "True", "False"}

\* C21: for every greenhouse the number of stored rows with source
\* 'resolution' is at most the number of its Issues with status 'Resolved'.
C21_OneResolutionRowPerIssue ==
    \A g \in greenhouses :
        Cardinality({ k \in 1..Len(env_data) :
                        env_data[k].greenhouse_id = g /\ env_data[k].source = "resolution" })
           <= Cardinality({ i \in IssueRows :
                              issues[i].greenhouse_id = g /\ issues[i].status = "Resolved" })

\* An Issue goes from 'Ongoing' to 'Resolved' by the commit of a resolve
\* request whose actor was, in the store the requests started from, an admin
\* or assigned to the Issue's greenhouse.
ResolvedByAssignedOnly ==
    \A i \in IssueRows :
        (issues[i].status = "Ongoing" /\ issues'[i].status = "Resolved") =>
           \E p \in Workers :
              /\ pc[p] = "resolve_commit"
              /\ req[p].issue_id = i
              /\ \/ InitialEmployees[req[p].actor].is_admin
                 \/ InitialEmployees[req[p].actor].greenhouse_id = issues[i].greenhouse_id

\* A step that changes the Employee table is the commit of an edit; when its
\* actor is not an admin it leaves every is_admin flag and every other
\* employee's row as they are.
NonAdminEditsOwnRecordOnly ==
    employees' # employees =>
       \E p \in Workers :
          /\ pc[p] = "edit_commit"
          /\ ~employees[req[p].actor].is_admin =>
                \A k \in 1..Len(employees) :
                   /\ employees'[k].is_admin = employees[k].is_admin
                   /\ k # req[p].actor => employees'[k] = employees[k]

\* C22: by requests of employees that are not admins (edits and resolves),
\* no Issue of a greenhouse becomes 'Resolved' unless the resolving employee
\* was assigned to that greenhouse before the requests began, and no such
\* request changes an is_admin flag or another employee's record.
C22_NoSelfEscalation ==
    [][ ResolvedByAssignedOnly /\ NonAdminEditsOwnRecordOnly ]_vars

====
